---- MODULE Spec2Model ----
(***************************************************************************)
(* Model of pushoverNotifications.js: a poller that, for every configured  *)
(* channel, fetches the top item with a headless browser, compares its     *)
(* title with the title persisted in the channel's file, and on a          *)
(* difference overwrites the file and POSTs a notification.  Strings are   *)
(* sequences of one-character strings.                                     *)
(***************************************************************************)
EXTENDS Integers, Sequences, FiniteSets, Bags, TLC

(* ------------------------------ bounds --------------------------------- *)
\* poll cycles started over the whole run: one at every process start and
\* one at every timer tick
MaxCycles == 2
\* changes of a channel's top item over the whole run
MaxChanges == 1

(* ------------------------------ strings -------------------------------- *)
Whitespace == {" ", "\n"}
Lower == {"a", "b", "x", "y"}
Upper == {"A", "B"}
Digits == {"0"}

ToLowerCase(c) ==
  IF c = "A" THEN "a" ELSE IF c = "B" THEN "b" ELSE c

RECURSIVE TrimStart(_)
TrimStart(s) ==
  IF s # <<>> /\ Head(s) \in Whitespace THEN TrimStart(Tail(s)) ELSE s

RECURSIVE TrimEnd(_)
TrimEnd(s) ==
  IF s # <<>> /\ s[Len(s)] \in Whitespace
  THEN TrimEnd(SubSeq(s, 1, Len(s) - 1))
  ELSE s

\* String.prototype.trim
Trim(s) == TrimEnd(TrimStart(s))

\* String.prototype.split(sep) for a one-character separator: the pieces
\* between the separators, empty pieces included
RECURSIVE SplitFrom(_, _, _)
SplitFrom(s, sep, cur) ==
  IF s = <<>> THEN <<cur>>
  ELSE IF Head(s) = sep THEN <<cur>> \o SplitFrom(Tail(s), sep, <<>>)
  ELSE SplitFrom(Tail(s), sep, Append(cur, Head(s)))

Split(s, sep) == SplitFrom(s, sep, <<>>)

(* --------------------------- configuration ----------------------------- *)
\* process.env.YOUTUBE_CHANNEL_URLS of the modelled deployments
EnvTwoChannels == <<"@", "a", ",", " ", "@", "b">>
EnvSharedFile == <<"@", "a", "-", "b", ",", "@", "a", "_", "b">>
EnvTrailingComma == <<"@", "a", ",">>

\* lines 11-13: unset or empty gives [], otherwise split on "," and trim
YOUTUBE_CHANNEL_URLS(env) ==
  IF env = <<>> THEN <<>>
  ELSE [i \in 1..Len(Split(env, ",")) |-> Trim(Split(env, ",")[i])]

\* lines 83-87: every character that is not a letter or digit becomes "_",
\* then the whole name is lower-cased
SafeChar(c) ==
  IF c \in Lower \cup Upper \cup Digits THEN ToLowerCase(c) ELSE "_"

getLatestTitleFileName(channelUrl) ==
  [i \in 1..Len(channelUrl) |-> SafeChar(channelUrl[i])]
    \o <<"_latest_title.txt">>

\* line 103: channelUrl.split('@')[1]?.split('/')[0] || 'YouTube Channel'
channelName(channelUrl) ==
  LET parts == Split(channelUrl, "@")
  IN IF Len(parts) >= 2 /\ Split(parts[2], "/")[1] # <<>>
     THEN Split(parts[2], "/")[1]
     ELSE <<"YouTube Channel">>

(* ------------------------------ the web -------------------------------- *)
\* what the selector's element can hold: textContent and href
Items ==
  { [text |-> <<"x">>, link |-> "v1"],
    [text |-> <<" ", "y", "\n">>, link |-> "v2"],
    [text |-> <<" ">>, link |-> "v3"] }

FirstItem == [text |-> <<"x">>, link |-> "v1"]

\* lines 59-65: the value page.evaluate returns for an element
VideoOf(element) == [title |-> Trim(element.text), link |-> element.link]

(* ------------------------------- state --------------------------------- *)
VARIABLES
  urls,         \* YOUTUBE_CHANNEL_URLS of the running process
  status,       \* "running", or "crashed": terminated without a successor
  restarts,     \* replacement processes spawned so far
  started,      \* poll cycles started so far, by all processes
  cyc,          \* the poll cycles of the running process
  files,        \* file name -> [exists, data]
  top,          \* channel index -> the element the page shows
  changesLeft,  \* top-item changes still allowed
  posts,        \* bag of the notification POSTs issued so far
  failed,       \* the payloads of the POSTs that were rejected
  live          \* processes of the script that are alive

vars ==
  <<urls, status, restarts, started, cyc, files, top, changesLeft, posts,
    failed, live>>

N == Len(urls)
Chan == 1..N
Slots == 1..MaxCycles

NoFile == [exists |-> FALSE, data |-> <<>>]

IdleCycle == [pc |-> "idle", idx |-> 0, latestVideo |-> <<>>, checked |-> <<>>]

\* lines 148-153: the loop enters its first iteration, or ends at once
StartedCycle ==
  IF N = 0
  THEN [pc |-> "done", idx |-> 0, latestVideo |-> <<>>, checked |-> <<>>]
  ELSE [pc |-> "fetch", idx |-> 1, latestVideo |-> <<>>, checked |-> <<1>>]

\* lines 155-159 at module load: one cycle is started, the timer is armed
FreshProcess == [c \in Slots |-> IF c = 1 THEN StartedCycle ELSE IdleCycle]

InitWith(env) ==
  /\ urls = YOUTUBE_CHANNEL_URLS(env)
  /\ status = "running"
  /\ restarts = 0
  /\ started = 1
  /\ cyc = FreshProcess
  /\ files = [f \in {getLatestTitleFileName(urls[i]) : i \in Chan} |-> NoFile]
  /\ top = [i \in Chan |-> FirstItem]
  /\ changesLeft = MaxChanges
  /\ posts = EmptyBag
  /\ failed = {}
  /\ live = 1

Init == InitWith(EnvTwoChannels)

(* --------------------------- file helpers ------------------------------ *)
\* a read whose existence test is inverted: null for every existing file
readLastTitleInverted(filename) ==
  IF files[filename].exists THEN <<>>
  ELSE IF Trim(files[filename].data) = <<>> THEN <<>>
  ELSE <<Trim(files[filename].data)>>

\* lines 89-95: null (<<>>) for a missing file and for blank contents,
\* otherwise the trimmed contents (<<title>>)
readLastTitle(filename) ==
  IF ~files[filename].exists THEN <<>>
  ELSE IF Trim(files[filename].data) = <<>> THEN <<>>
  ELSE <<Trim(files[filename].data)>>

\* lines 97-99
writeLastTitle(title, filename) ==
  [files EXCEPT ![filename] = [exists |-> TRUE, data |-> title]]

\* lines 105-116: the fields of the payload that depend on the video
pushoverPayload(video, channelUrl) ==
  [message |-> <<channelName(channelUrl), video.title>>, url |-> video.link]

(* ----------------------- process-level outcomes ------------------------ *)
Running == status = "running"
InProgress(c) == cyc[c].pc \notin {"idle", "done", "aborted"}

\* guard of the steps that enter an error path: the replacement process
\* starts a cycle at once, and the run models MaxCycles cycle starts
MayFail == started < MaxCycles

\* a restart whose process.exit is missing: the old process lives on
restartScriptWithoutExit ==
  /\ restarts' = restarts + 1
  /\ started' = started + 1
  /\ cyc' = FreshProcess
  /\ live' = live + 1
  /\ UNCHANGED <<urls, status, files, top, changesLeft, posts, failed>>

\* lines 22-28: spawn a replacement (line 24), exit (line 27); the
\* replacement loads the module
restartScript ==
  /\ restarts' = restarts + 1
  /\ started' = started + 1
  /\ cyc' = FreshProcess
  /\ live' = (live + 1) - 1
  /\ UNCHANGED <<urls, status, files, top, changesLeft, posts, failed>>

\* a rejection nobody handles: depending on the Node version the process
\* terminates (no successor, all its cycles gone), or only warns and keeps
\* running
UnhandledRejection(c) ==
  /\ \/ /\ status' = "crashed"
        /\ cyc' = [d \in Slots |-> IdleCycle]
        /\ live' = live - 1
     \/ /\ status' = status
        /\ cyc' = [cyc EXCEPT ![c].pc = "aborted", ![c].latestVideo = <<>>]
        /\ live' = live
  /\ UNCHANGED <<urls, restarts, started, files, top, changesLeft, posts,
                 failed>>

\* a loop that takes the url after the next one
NextIterationSkipping(c) ==
  IF cyc[c].idx + 1 < N
  THEN [cyc EXCEPT ![c].pc = "fetch", ![c].idx = cyc[c].idx + 2,
                   ![c].latestVideo = <<>>,
                   ![c].checked = Append(cyc[c].checked, cyc[c].idx + 2)]
  ELSE [cyc EXCEPT ![c].pc = "done", ![c].latestVideo = <<>>]

\* lines 150-152: the awaited check returned, the loop takes the next url
NextIteration(c) ==
  IF cyc[c].idx < N
  THEN [cyc EXCEPT ![c].pc = "fetch", ![c].idx = cyc[c].idx + 1,
                   ![c].latestVideo = <<>>,
                   ![c].checked = Append(cyc[c].checked, cyc[c].idx + 1)]
  ELSE [cyc EXCEPT ![c].pc = "done", ![c].latestVideo = <<>>]

(* ------------------------------ actions -------------------------------- *)
\* a timer that skips its tick while an earlier cycle is in progress
TickUnlessBusy ==
  /\ Running
  /\ started < MaxCycles
  /\ \A d \in Slots : ~InProgress(d)
  /\ \E c \in Slots :
       /\ cyc[c].pc = "idle"
       /\ \A d \in Slots : d < c => cyc[d].pc # "idle"
       /\ cyc' = [cyc EXCEPT ![c] = StartedCycle]
  /\ started' = started + 1
  /\ UNCHANGED <<urls, status, restarts, files, top, changesLeft, posts,
                 failed, live>>

\* line 159: the timer fires and starts another cycle
Tick ==
  /\ Running
  /\ started < MaxCycles
  /\ \E c \in Slots :
       /\ cyc[c].pc = "idle"
       /\ \A d \in Slots : d < c => cyc[d].pc # "idle"
       /\ cyc' = [cyc EXCEPT ![c] = StartedCycle]
  /\ started' = started + 1
  /\ UNCHANGED <<urls, status, restarts, files, top, changesLeft, posts,
                 failed, live>>

\* the channel uploads: its page shows another top element
TopChange(i, element) ==
  /\ Running
  /\ changesLeft > 0
  /\ top[i] # element
  /\ top' = [top EXCEPT ![i] = element]
  /\ changesLeft' = changesLeft - 1
  /\ UNCHANGED <<urls, status, restarts, started, cyc, files, posts, failed,
                 live>>

\* line 33 throws: browser is undefined in the outer catch, lines 76-79
LaunchFail(c) ==
  /\ Running /\ MayFail
  /\ cyc[c].pc = "fetch"
  /\ restartScript

\* line 40 throws: the inner catch awaits browser.close(), line 43
NavFail(c) ==
  /\ Running /\ MayFail
  /\ cyc[c].pc = "fetch"
  /\ cyc' = [cyc EXCEPT ![c].pc = "closeInner"]
  /\ UNCHANGED <<urls, status, restarts, started, files, top, changesLeft,
                 posts, failed, live>>

\* lines 34, 48-65 throw: the outer catch awaits browser.close(), line 77
FetchThrow(c) ==
  /\ Running /\ MayFail
  /\ cyc[c].pc = "fetch"
  /\ cyc' = [cyc EXCEPT ![c].pc = "closeOuter"]
  /\ UNCHANGED <<urls, status, restarts, started, files, top, changesLeft,
                 posts, failed, live>>

\* lines 59-65: the element is read (or is missing); line 67 is awaited
Evaluate(c) ==
  /\ Running
  /\ cyc[c].pc = "fetch"
  /\ \E found \in BOOLEAN :
       cyc' = [cyc EXCEPT ![c].pc = "close",
                 ![c].latestVideo =
                    IF found THEN <<VideoOf(top[cyc[c].idx])>> ELSE <<>>]
  /\ UNCHANGED <<urls, status, restarts, started, files, top, changesLeft,
                 posts, failed, live>>

\* line 67 throws
CloseFail(c) ==
  /\ Running /\ MayFail
  /\ cyc[c].pc = "close"
  /\ cyc' = [cyc EXCEPT ![c].pc = "closeOuter", ![c].latestVideo = <<>>]
  /\ UNCHANGED <<urls, status, restarts, started, files, top, changesLeft,
                 posts, failed, live>>

\* a check that treats a page without the element as a fetch failure
CheckForNewVideoNullRestarts(c) ==
  /\ Running
  /\ cyc[c].pc = "close"
  /\ LET channelUrl == urls[cyc[c].idx]
         latestTitleFile == getLatestTitleFileName(channelUrl)
         storedTitle == readLastTitle(latestTitleFile)
     IN IF cyc[c].latestVideo = <<>>
        THEN restartScript
        ELSE IF storedTitle = <<cyc[c].latestVideo[1].title>>
        THEN /\ cyc' = NextIteration(c)
             /\ UNCHANGED <<urls, status, restarts, started, top, changesLeft,
                            failed, live, files, posts>>
        ELSE /\ files' = writeLastTitle(cyc[c].latestVideo[1].title,
                                        latestTitleFile)
             /\ posts' = posts (+)
                  SetToBag({pushoverPayload(cyc[c].latestVideo[1], channelUrl)})
             /\ cyc' = [cyc EXCEPT ![c].pc = "post"]
             /\ UNCHANGED <<urls, status, restarts, started, top, changesLeft,
                            failed, live>>

\* lines 67-74 and 127-144 up to the await of axios.post: no suspension
\* point lies between the read, the comparison, the write and the POST
CheckForNewVideo(c) ==
  /\ Running
  /\ cyc[c].pc = "close"
  /\ LET channelUrl == urls[cyc[c].idx]
         latestTitleFile == getLatestTitleFileName(channelUrl)
         storedTitle == readLastTitle(latestTitleFile)
     IN IF cyc[c].latestVideo = <<>>
        THEN /\ cyc' = NextIteration(c)
             /\ UNCHANGED <<files, posts>>
        ELSE IF storedTitle = <<cyc[c].latestVideo[1].title>>
        THEN /\ cyc' = NextIteration(c)
             /\ UNCHANGED <<files, posts>>
        ELSE /\ files' = writeLastTitle(cyc[c].latestVideo[1].title,
                                        latestTitleFile)
             /\ posts' = posts (+)
                  SetToBag({pushoverPayload(cyc[c].latestVideo[1], channelUrl)})
             /\ cyc' = [cyc EXCEPT ![c].pc = "post"]
  /\ UNCHANGED <<urls, status, restarts, started, top, changesLeft, failed,
                 live>>

\* line 93 throws (the file exists but cannot be read)
ReadThrow(c) ==
  /\ Running
  /\ cyc[c].pc = "close"
  /\ cyc[c].latestVideo # <<>>
  /\ files[getLatestTitleFileName(urls[cyc[c].idx])].exists
  /\ UnhandledRejection(c)

\* line 98 throws (the file cannot be written)
WriteThrow(c) ==
  /\ Running
  /\ cyc[c].pc = "close"
  /\ cyc[c].latestVideo # <<>>
  /\ readLastTitle(getLatestTitleFileName(urls[cyc[c].idx]))
       # <<cyc[c].latestVideo[1].title>>
  /\ UnhandledRejection(c)

\* line 43 resolves: line 44
InnerCloseOk(c) ==
  /\ Running
  /\ cyc[c].pc = "closeInner"
  /\ restartScript

\* line 43 throws: the outer catch, line 77
InnerCloseFail(c) ==
  /\ Running
  /\ cyc[c].pc = "closeInner"
  /\ cyc' = [cyc EXCEPT ![c].pc = "closeOuter"]
  /\ UNCHANGED <<urls, status, restarts, started, files, top, changesLeft,
                 posts, failed, live>>

\* line 77 resolves: lines 78-79
OuterCloseOk(c) ==
  /\ Running
  /\ cyc[c].pc = "closeOuter"
  /\ restartScript

\* line 77 throws inside the catch: getLatestVideo rejects, and so do
\* checkForNewVideo and checkForAllNewVideos
OuterCloseFail(c) ==
  /\ Running
  /\ cyc[c].pc = "closeOuter"
  /\ UnhandledRejection(c)

\* line 118 resolves: lines 119, 145
PostOk(c) ==
  /\ Running
  /\ cyc[c].pc = "post"
  /\ cyc' = NextIteration(c)
  /\ UNCHANGED <<urls, status, restarts, started, files, top, changesLeft,
                 posts, failed, live>>

\* a delivery failure handled like a fetch failure
PostFailRestarting(c) ==
  /\ Running
  /\ cyc[c].pc = "post"
  /\ restartScript

\* line 118 rejects: lines 120-122, then 145
PostFail(c) ==
  /\ Running
  /\ cyc[c].pc = "post"
  /\ failed' = failed \cup
       {pushoverPayload(cyc[c].latestVideo[1], urls[cyc[c].idx])}
  /\ cyc' = NextIteration(c)
  /\ UNCHANGED <<urls, status, restarts, started, files, top, changesLeft,
                 posts, live>>

Next ==
  \/ Tick
  \/ \E i \in Chan, element \in Items : TopChange(i, element)
  \/ \E c \in Slots : LaunchFail(c)
  \/ \E c \in Slots : NavFail(c)
  \/ \E c \in Slots : FetchThrow(c)
  \/ \E c \in Slots : Evaluate(c)
  \/ \E c \in Slots : CloseFail(c)
  \/ \E c \in Slots : CheckForNewVideo(c)
  \/ \E c \in Slots : ReadThrow(c)
  \/ \E c \in Slots : WriteThrow(c)
  \/ \E c \in Slots : InnerCloseOk(c)
  \/ \E c \in Slots : InnerCloseFail(c)
  \/ \E c \in Slots : OuterCloseOk(c)
  \/ \E c \in Slots : OuterCloseFail(c)
  \/ \E c \in Slots : PostOk(c)
  \/ \E c \in Slots : PostFail(c)

Spec == Init /\ [][Next]_vars

\* a deployment whose two channel urls are sanitized to the same file name
InitShared == InitWith(EnvSharedFile)
SpecShared == InitShared /\ [][Next]_vars

\* a deployment whose channel list ends with a comma
InitTrailingComma == InitWith(EnvTrailingComma)
SpecTrailingComma == InitTrailingComma /\ [][Next]_vars

\* a deployment whose channels all have T0 = "x" persisted and showing
InitOnce ==
  /\ urls = YOUTUBE_CHANNEL_URLS(EnvTwoChannels)
  /\ status = "running"
  /\ restarts = 0
  /\ started = 1
  /\ cyc = FreshProcess
  /\ files = [f \in {getLatestTitleFileName(urls[i]) : i \in Chan} |->
                [exists |-> TRUE, data |-> VideoOf(FirstItem).title]]
  /\ top = [i \in Chan |-> FirstItem]
  /\ changesLeft = 1
  /\ posts = EmptyBag
  /\ failed = {}
  /\ live = 1

SpecOnce == InitOnce /\ [][Next]_vars

(* ------------------------ helpers of the claims ------------------------ *)
FileOf(i) == files[getLatestTitleFileName(urls[i])]

\* this step is cycle c's comparison of a fetched item with the file
\* (lines 134-144), running to its return or to the await of the POST
Compared(c) ==
  /\ cyc[c].pc = "close"
  /\ cyc[c].latestVideo # <<>>
  /\ restarts' = restarts /\ status' = status
  /\ cyc'[c].pc \in {"post", "fetch", "done"}

\* the number of POSTs issued by this step
Issued == BagCardinality(posts') - BagCardinality(posts)

(* ------------------------------- claims -------------------------------- *)
\* C1: in every check whose fetch returned an item, a notification is sent
\* if and only if the item's title differs from the current contents of the
\* channel's file, a missing file differing from every title (the empty
\* title included).
C1_NotifyIffTitleDiffers ==
  [][\A c \in Slots :
       Compared(c) =>
         ((Issued > 0) <=>
            (~FileOf(cyc[c].idx).exists
               \/ FileOf(cyc[c].idx).data # cyc[c].latestVideo[1].title))]_vars

\* C2: a check that detected a differing title finishes with the channel's
\* file holding exactly the new title, having issued exactly one POST whose
\* message contains the new title and whose url is the item's link.
C2_ChangePersistedAndNotifiedOnce ==
  /\ [][\A c \in Slots :
          (Compared(c) /\ cyc'[c].pc = "post") =>
             posts' = posts (+) SetToBag({
               [message |-> <<channelName(urls[cyc[c].idx]),
                              cyc[c].latestVideo[1].title>>,
                url |-> cyc[c].latestVideo[1].link]})]_vars
  /\ [][\A c \in Slots :
          (cyc[c].pc = "post" /\ (PostOk(c) \/ PostFail(c))) =>
             /\ Issued = 0
             /\ FileOf(cyc[c].idx).exists
             /\ FileOf(cyc[c].idx).data = cyc[c].latestVideo[1].title]_vars

\* C3: once the navigation for channel i has failed, the process writes no
\* title file, sends no notification and starts no check of a channel
\* listed after i; its next act is the restart.
C3_NothingAfterNavigationFailure ==
  [][\A c \in Slots :
       (cyc[c].pc = "closeInner" /\ restarts' = restarts) =>
          /\ files' = files
          /\ posts' = posts
          /\ \A d \in Slots :
               cyc'[d].checked # cyc[d].checked =>
                 cyc'[d].idx <= cyc[c].idx]_vars

\* C4: no exception raised in a poll cycle outside the notification delivery
\* terminates the process without a successor, or leaves the process
\* running with its cycle abandoned and no restart.
C4_EveryExceptionRestarts ==
  /\ status # "crashed"
  /\ \A c \in Slots : cyc[c].pc # "aborted"

\* C5: a failed notification POST triggers no restart and no second POST,
\* and the poll cycle goes on with the next configured channel (or ends
\* when the failed delivery belonged to the last one).
C5_FailedPostIsSwallowed ==
  [][\A c \in Slots :
       PostFail(c) =>
         /\ restarts' = restarts
         /\ status' = "running"
         /\ Issued = 0
         /\ files' = files
         /\ \A d \in Slots \ {c} : cyc'[d] = cyc[d]
         /\ IF cyc[c].idx < N
            THEN /\ cyc'[c].pc = "fetch"
                 /\ cyc'[c].idx = cyc[c].idx + 1
            ELSE cyc'[c].pc = "done"]_vars

\* the POST for channel 1 failed and the same cycle is checking channel 2
C5_Witness ==
  /\ restarts = 0
  /\ started = 1
  /\ BagCardinality(posts) = 1
  /\ failed = BagToSet(posts)
  /\ cyc[1].pc = "fetch" /\ cyc[1].idx = 2
  /\ \A d \in Slots \ {1} : cyc[d].pc = "idle"

C7_TickStartsCycleRegardless ==
  /\ Running => cyc[1].pc # "idle"
  /\ (Running /\ started < MaxCycles) => ENABLED Tick

\* two poll cycles of the same process are in progress
C7_Witness ==
  /\ Running
  /\ \E c, d \in Slots : c # d /\ InProgress(c) /\ InProgress(d)

\* C8: distinct channel urls have distinct file names, and a check of one
\* channel leaves the file of every other channel as it was.
C8_OneFilePerChannel ==
  /\ [](\A i, j \in Chan :
          urls[i] # urls[j] =>
            getLatestTitleFileName(urls[i]) # getLatestTitleFileName(urls[j]))
  /\ [][\A c \in Slots :
          Compared(c) =>
            \A j \in Chan :
              urls[j] # urls[cyc[c].idx] => FileOf(j)' = FileOf(j)]_vars

\* C9: no two checks of the same channel are in progress at once, each
\* having started its fetch and not yet finished its compare-and-write.
C9_NoConcurrentChecksOfAChannel ==
  \A c, d \in Slots :
    (/\ c # d
     /\ cyc[c].pc \in {"fetch", "close"}
     /\ cyc[d].pc \in {"fetch", "close"}) =>
       urls[cyc[c].idx] # urls[cyc[d].idx]

\* C10: with T0 persisted and the top item changing once from T0 to T1
\* (both non-empty), one process never sends a notification for T0 and
\* never sends more than one for T1.
C10_OneNotificationPerChange ==
  restarts = 0 =>
    \A p \in BagToSet(posts) :
      /\ p.message[2] # VideoOf(FirstItem).title
      /\ p.message[2] # <<>> => CopiesIn(p, posts) <= 1

\* C11: once the delivery of the notification for a title T of a channel has
\* failed, no later check of that channel that observes T sends a
\* notification for it.
C11_NoSecondAttemptAfterFailure ==
  [][\A c \in Slots :
       (/\ Compared(c)
        /\ pushoverPayload(cyc[c].latestVideo[1], urls[cyc[c].idx])
             \in failed) => Issued = 0]_vars

\* C12: when a check of a channel observes the title that the previous check
\* of that channel observed, and nothing else wrote the file in between (so
\* the file holds exactly that title, the empty one included), the check
\* sends no notification and leaves the file unchanged.
C12_CheckingIsIdempotent ==
  [][\A c \in Slots :
       (/\ Compared(c)
        /\ FileOf(cyc[c].idx).exists
        /\ FileOf(cyc[c].idx).data = cyc[c].latestVideo[1].title) =>
          /\ Issued = 0
          /\ files' = files]_vars

\* C13: a check that finds no item, or whose observed title equals the
\* persisted title (the contents of the channel's file), leaves every title
\* file unchanged and sends no notification.
C13_FileOverwrittenOnlyOnChange ==
  [][\A c \in Slots :
       (/\ CheckForNewVideo(c)
        /\ \/ cyc[c].latestVideo = <<>>
           \/ /\ cyc[c].latestVideo # <<>>
              /\ FileOf(cyc[c].idx).exists
              /\ FileOf(cyc[c].idx).data = cyc[c].latestVideo[1].title) =>
          /\ posts' = posts
          /\ files' = files
          /\ failed' = failed]_vars

\* two cycles are checking the same channel and hold the same non-empty
\* title; cycle c has written it and awaits its POST, the file still holds it
SameTitleWrittenBy(c, d) ==
  /\ c # d
  /\ cyc[c].pc = "post"
  /\ cyc[d].pc = "close"
  /\ cyc[d].latestVideo # <<>>
  /\ urls[cyc[c].idx] = urls[cyc[d].idx]
  /\ cyc[c].latestVideo[1].title = cyc[d].latestVideo[1].title
  /\ cyc[d].latestVideo[1].title # <<>>
  /\ FileOf(cyc[d].idx).exists
  /\ FileOf(cyc[d].idx).data = cyc[d].latestVideo[1].title

\* C14: of two overlapping checks of one channel that observed the same new
\* non-empty title, with no other title written meanwhile, the one that
\* compares second sends no notification and writes nothing: the first
\* check's read, comparison and write were one step.
C14_OverlappingChecksNotifyOnce ==
  [][\A c, d \in Slots :
       (SameTitleWrittenBy(c, d) /\ Compared(d)) =>
          /\ Issued = 0
          /\ files' = files]_vars

\* the first check has written and notified, the second is about to compare
C14_Witness ==
  /\ Running
  /\ \E c, d \in Slots : SameTitleWrittenBy(c, d)

\* C15: a check whose page loaded without the element (getLatestVideo
\* returned null) causes no restart and no crash, writes and sends nothing,
\* and its cycle continues with the next configured channel (or ends after
\* the last one).
C15_MissingItemIsNotAFailure ==
  [][\A c \in Slots :
       (cyc[c].latestVideo = <<>> /\ CheckForNewVideo(c)) =>
          /\ restarts' = restarts
          /\ status' = "running"
          /\ live' = live
          /\ files' = files
          /\ posts' = posts
          /\ \A d \in Slots \ {c} : cyc'[d] = cyc[d]
          /\ IF cyc[c].idx < N
             THEN /\ cyc'[c].pc = "fetch"
                  /\ cyc'[c].idx = cyc[c].idx + 1
             ELSE cyc'[c].pc = "done"]_vars

\* the first channel's page had no element (nothing was written although the
\* file is missing) and the same cycle is fetching the second channel
C15_Witness ==
  /\ Running
  /\ restarts = 0
  /\ cyc[1].pc = "fetch" /\ cyc[1].idx = 2
  /\ \A d \in Slots \ {1} : cyc[d].pc = "idle"
  /\ \A i \in Chan : ~FileOf(i).exists
  /\ posts = EmptyBag

\* C16: a restart spawns exactly one replacement and ends the restarting
\* process with all its cycles and its timer, so at most one process is
\* alive at any moment and only a live process has cycles.
C16_OneProcessAtATime ==
  /\ [](/\ live <= 1
        /\ (\E c \in Slots : cyc[c].pc # "idle") => live = 1
        /\ Running <=> live = 1)
  /\ [][restarts' # restarts =>
          /\ restarts' = restarts + 1
          /\ live' = live
          /\ cyc' = FreshProcess
          /\ files' = files
          /\ posts' = posts]_vars

\* a replacement process is checking after the first process, which had sent
\* a notification, restarted
C16_Witness ==
  /\ restarts = 1
  /\ live = 1
  /\ posts # EmptyBag
  /\ InProgress(1)
  /\ \A d \in Slots \ {1} : cyc[d].pc = "idle"

\* C17: the process a restart spawns has its first cycle at the first
\* configured channel at once; every failed fetch ends in a restart (so a
\* channel whose fetch always fails keeps the processes restarting); and a
\* cycle passes to the channel after i only from a check of i whose fetch had
\* succeeded.
C17_FailingChannelStarvesLaterOnes ==
  /\ [][restarts' # restarts => cyc'[1] = StartedCycle]_vars
  /\ [][\A c \in Slots :
          (/\ cyc[c].pc \in {"closeInner", "closeOuter"}
           /\ cyc'[c].pc \notin {"closeInner", "closeOuter"}) =>
             restarts' = restarts + 1]_vars
  /\ [][\A c \in Slots :
          (/\ restarts' = restarts
           /\ cyc[c].idx >= 1
           /\ cyc'[c].idx > cyc[c].idx) =>
             cyc[c].pc \in {"close", "post"}]_vars

\* C18: every channel reference a poll cycle processes is a non-empty
\* string: no empty entry of the comma-separated list is ever checked.
C18_NoEmptyChannelChecked ==
  \A c \in Slots : cyc[c].idx >= 1 => urls[cyc[c].idx] # <<>>
====
